---- MODULE Spec2Model ----
(***************************************************************************)
(* High-dimensional networks (src/Dimension2Network): dimensions, link     *)
(* rules, Cartesian-product node construction, pairwise link construction, *)
(* merge by dimension/rule union and reconstruction, node/link removal.    *)
(*                                                                         *)
(* Python dicts are insertion-ordered; a dict is modelled as a sequence of *)
(* records with pairwise distinct keys (graph.nodes keyed by node_id,      *)
(* graph.links by link_id, link_rules by rule_id).  Strings are TLA+       *)
(* strings and ids are built by real concatenation, so that two different  *)
(* value tuples can join to the same id.                                   *)
(***************************************************************************)
EXTENDS Integers, Sequences, FiniteSets, TLC

VARIABLES
    net,     \* the HighDimNetwork objects that exist, by the name that refers to them
    last,    \* the call made last: operation, receiver, arguments, outcome
    prev,    \* net just before that call
    ncalls   \* number of calls made so far

vars == <<net, last, prev, ncalls>>

\* ------------------------------------------------------------------ bounds

\* Calls made in one run on one network.
MaxCalls == 4

\* Calls made in one run on two networks and their merge.
MaxMergeCalls == 3

\* The number of calls made in a run that edits the rules of one network.
MaxRuleCalls == 3

\* The number of calls made in a run that projects the graph of one network.
MaxProjectCalls == 3

\* The number of calls made in a run on one dimension.
MaxDimensionCalls == 2

\* ------------------------------------------------------------- sequences

Range(s) == {s[i] : i \in 1..Len(s)}

\* "_".join(map(str, parts))
RECURSIVE Join(_)
Join(parts) ==
    IF parts = <<>> THEN ""
    ELSE IF Len(parts) = 1 THEN parts[1]
         ELSE parts[1] \o "_" \o Join(Tail(parts))

\* ------------------------------------------------------------- dimensions

\* Dimension._generate_coordinates: a dict comprehension over enumerate(values);
\* for a repeated value the last index wins.
GenerateCoordinates(values, start, step) ==
    [v \in Range(values) |->
        LET i == CHOOSE k \in 1..Len(values) :
                    /\ values[k] = v
                    /\ \A m \in 1..Len(values) : values[m] = v => m <= k
        IN  start + (i - 1) * step]

\* Dimension.__init__ (attributes default to one empty dict per value).
Dimension(dim_id, values, start, step) ==
    [dim_id |-> dim_id, values |-> values,
     coordinates |-> GenerateCoordinates(values, start, step)]

\* Dimension.get_coordinate: the coordinate, or the error.
GetCoordinate(dim, value) ==
    IF value \notin DOMAIN dim.coordinates
    THEN [err |-> "invalid_value", value |-> 0]
    ELSE [err |-> "ok", value |-> dim.coordinates[value]]

\* ------------------------------------------------------------------ rules

\* int(value) of a numeric logical value (the Y axis of main.py, scaled by 10).
Num(v) == CASE v = "1" -> 1 [] v = "2" -> 2 [] v = "3" -> 3 [] OTHER -> 0

\* The rule callables: called as rule_function(*source_values, *target_values).
RuleFunction(fn, src, tgt) ==
    CASE fn = "xy" -> Num(src[1]) - Num(tgt[1]) < 1
      [] fn = "yz" -> Num(src[1]) - Num(tgt[1]) < 2 /\ src[2] # tgt[2]
      [] fn = "same" -> src = tgt
      [] fn = "differ" -> src # tgt
      [] OTHER -> FALSE

\* Rule.__init__
Rule(dimensions, rule_function) ==
    [dimensions |-> dimensions, rule_function |-> rule_function]

\* Rule.validate
RuleValidate(rule, dimensions_id_list, dic1, dic2) ==
    IF ~ \A i \in 1..Len(rule.dimensions) : rule.dimensions[i] \in Range(dimensions_id_list)
    THEN FALSE
    ELSE RuleFunction(rule.rule_function,
                      [i \in 1..Len(rule.dimensions) |-> dic1[rule.dimensions[i]]],
                      [i \in 1..Len(rule.dimensions) |-> dic2[rule.dimensions[i]]])

\* NetworkRule.__init__ followed by add_subrule of each member.
NetworkRule(rule_id, dimensions, rules) ==
    [rule_id |-> rule_id, dimensions |-> dimensions, rules |-> rules]

\* A composite that passes when all of its subrules pass.
NetworkRuleValidateAll(nrule, dimensions_id_list, dic1, dic2) ==
    \A i \in 1..Len(nrule.rules) :
        RuleValidate(nrule.rules[i], dimensions_id_list, dic1, dic2)

\* NetworkRule.validate: any(...) over the subrules.
NetworkRuleValidate(nrule, dimensions_id_list, dic1, dic2) ==
    \E i \in 1..Len(nrule.rules) :
        RuleValidate(nrule.rules[i], dimensions_id_list, dic1, dic2)

\* An add_subrule that accepts every rule.
AddSubruleUnchecked(nrule, rule) ==
    [err |-> "ok", nrule |-> [nrule EXCEPT !.rules = Append(@, rule)]]

\* NetworkRule.add_subrule
AddSubrule(nrule, rule) ==
    IF ~ \A i \in 1..Len(rule.dimensions) : rule.dimensions[i] \in Range(nrule.dimensions)
    THEN [err |-> "scope", nrule |-> nrule]
    ELSE [err |-> "ok", nrule |-> [nrule EXCEPT !.rules = Append(@, rule)]]

\* NetworkRuleManager.validate_link: all(...) over link_rules.values().
ValidateLink(rules, dimensions_id_list, dic1, dic2) ==
    \A i \in 1..Len(rules) :
        NetworkRuleValidate(rules[i], dimensions_id_list, dic1, dic2)

\* NetworkRuleManager.add_link_rule on the ordered dict `rules`.
AddLinkRule(rules, nrule) ==
    IF \E i \in 1..Len(rules) : rules[i].rule_id = nrule.rule_id
    THEN [err |-> "rule_exists", rules |-> rules]
    ELSE [err |-> "ok", rules |-> Append(rules, nrule)]

\* ------------------------------------------------------------------ graph

\* Node.__init__ (dim_values / coordinates tuples are derived from the dicts).
Node(node_id, dim_list, dim_values_dic, coordinates_dic) ==
    [node_id |-> node_id, dim_list |-> dim_list,
     dim_values_dic |-> dim_values_dic, coordinates_dic |-> coordinates_dic]

\* Link.__init__
Link(link_id, source, target) ==
    [link_id |-> link_id, source |-> source, target |-> target]

NodeIds(nodes) == {nodes[i].node_id : i \in 1..Len(nodes)}

LinkIds(links) == {links[i].link_id : i \in 1..Len(links)}

\* add_node that stores over an existing key instead of raising.
GraphAddNodeOverwrite(nodes, node) ==
    [err |-> "ok",
     nodes |-> IF node.node_id \in NodeIds(nodes)
               THEN [i \in 1..Len(nodes) |->
                       IF nodes[i].node_id = node.node_id THEN node ELSE nodes[i]]
               ELSE Append(nodes, node)]

\* Graph.add_node
GraphAddNode(nodes, node) ==
    IF node.node_id \in NodeIds(nodes)
    THEN [err |-> "node_exists", nodes |-> nodes]
    ELSE [err |-> "ok", nodes |-> Append(nodes, node)]

\* self.links[link.link_id] = link : an existing key keeps its position.
DictSetLink(links, link) ==
    IF link.link_id \in LinkIds(links)
    THEN [i \in 1..Len(links) |->
            IF links[i].link_id = link.link_id THEN link ELSE links[i]]
    ELSE Append(links, link)

\* Graph.add_link
GraphAddLink(nodes, links, link) ==
    IF ~ (link.source \in NodeIds(nodes) /\ link.target \in NodeIds(nodes))
    THEN [err |-> "endpoint_missing", links |-> links]
    ELSE [err |-> "ok", links |-> DictSetLink(links, link)]

\* HighDimNetwork.add_link; link_id "" stands for None (both are falsy).
AddLink(nodes, links, source_id, target_id, link_id) ==
    LET id == IF link_id = "" THEN source_id \o "_" \o target_id ELSE link_id
    IN  GraphAddLink(nodes, links, Link(id, source_id, target_id))

\* The dict {dim: node.get_coords_value(dim) for dim in dimension_list
\* if dim in node.dim_list}: a repeated dim is one key.
ProjectedCoordinates(node, dimension_list) ==
    [dim \in Range(dimension_list) \cap Range(node.dim_list) |-> node.coordinates_dic[dim]]

\* len(projected) == len(dimension_list)
FullyProjected(projected, dimension_list) ==
    Cardinality(DOMAIN projected) = Len(dimension_list)

\* self.nodes[node_id]
NodeById(nodes, node_id) == CHOOSE node \in Range(nodes) : node.node_id = node_id

\* The entries of the projection for the nodes of a graph.
ProjectNodes(nodes, dimension_list) ==
    LET kept == SelectSeq(nodes, LAMBDA node :
                    FullyProjected(ProjectedCoordinates(node, dimension_list), dimension_list))
    IN  [i \in 1..Len(kept) |->
            [node_id |-> kept[i].node_id,
             coordinates |-> ProjectedCoordinates(kept[i], dimension_list)]]

\* The entries of the projection for the links of a graph.
ProjectLinks(nodes, links, dimension_list) ==
    LET src(link) == ProjectedCoordinates(NodeById(nodes, link.source), dimension_list)
        tgt(link) == ProjectedCoordinates(NodeById(nodes, link.target), dimension_list)
        kept == SelectSeq(links, LAMBDA link :
                    /\ FullyProjected(src(link), dimension_list)
                    /\ FullyProjected(tgt(link), dimension_list))
    IN  [i \in 1..Len(kept) |->
            [link_id |-> kept[i].link_id,
             source |-> [node_id |-> kept[i].source, coordinates |-> src(kept[i])],
             target |-> [node_id |-> kept[i].target, coordinates |-> tgt(kept[i])]]]

\* A projection that goes ahead when some requested dimension is known.
ProjectToDimensionsAnyKnown(dimension_id_list, nodes, links, dimension_list) ==
    IF ~ \E i \in 1..Len(dimension_list) : dimension_list[i] \in Range(dimension_id_list)
    THEN [err |-> "unknown_dimension", result |-> <<>>]
    ELSE [err |-> "ok",
          result |-> [nodes |-> ProjectNodes(nodes, dimension_list),
                      links |-> ProjectLinks(nodes, links, dimension_list)]]

\* Graph.project_to_dimensions
ProjectToDimensions(dimension_id_list, nodes, links, dimension_list) ==
    IF ~ \A i \in 1..Len(dimension_list) : dimension_list[i] \in Range(dimension_id_list)
    THEN [err |-> "unknown_dimension", result |-> <<>>]
    ELSE [err |-> "ok",
          result |-> [nodes |-> ProjectNodes(nodes, dimension_list),
                      links |-> ProjectLinks(nodes, links, dimension_list)]]

\* ----------------------------------------------------------- construction

\* HighDimNetwork.__init__
HighDimNetwork(network_id, dims, rules) ==
    [network_id |-> network_id,
     dimension_list |-> dims,
     dimension_id_list |-> [i \in 1..Len(dims) |-> dims[i].dim_id],
     link_rules |-> rules,
     nodes |-> <<>>, links |-> <<>>,
     node_mapping |-> {}, link_mapping |-> {}]

\* Number of tuples of itertools.product over the ranges from position i on.
RECURSIVE Stride(_, _)
Stride(ranges, i) ==
    IF i > Len(ranges) THEN 1 ELSE Len(ranges[i]) * Stride(ranges, i + 1)

\* The k-th tuple (from 0) of itertools.product(*ranges): the last range
\* varies fastest.
Combination(ranges, k) ==
    [i \in 1..Len(ranges) |->
        ranges[i][((k \div Stride(ranges, i + 1)) % Len(ranges[i])) + 1]]

\* The body of the loop of construct_nodes for one combination.
NodeOfCombination(dims, combination) ==
    LET dim_list == [i \in 1..Len(dims) |-> dims[i].dim_id]
        ids      == Range(dim_list)
        lastOf(d) == CHOOSE i \in 1..Len(dims) :
                        /\ dim_list[i] = d
                        /\ \A m \in 1..Len(dims) : dim_list[m] = d => m <= i
    IN  Node(Join(combination), dim_list,
             [d \in ids |-> combination[lastOf(d)]],
             [d \in ids |-> GetCoordinate(dims[lastOf(d)], combination[lastOf(d)]).value])

\* The loop of construct_nodes from combination k on; an exception of add_node
\* ends it and leaves the nodes added so far.
RECURSIVE NodeLoop(_, _, _)
NodeLoop(dims, nodes, k) ==
    LET ranges == [i \in 1..Len(dims) |-> dims[i].values]
    IN  IF k >= Stride(ranges, 1) THEN [err |-> "ok", nodes |-> nodes]
        ELSE LET r == GraphAddNode(nodes, NodeOfCombination(dims, Combination(ranges, k)))
             IN  IF r.err # "ok" THEN r ELSE NodeLoop(dims, r.nodes, k + 1)

\* HighDimNetwork.construct_nodes
ConstructNodes(n) ==
    LET r == NodeLoop(n.dimension_list, n.nodes, 0)
    IN  [err |-> r.err, net |-> [n EXCEPT !.nodes = r.nodes]]

\* Loops whose inner loop runs over all of node_ids: validate_link is called
\* on every ordered pair.
RECURSIVE LinkLoopBothOrders(_, _, _, _)
LinkLoopBothOrders(n, links, i, j) ==
    IF i > Len(n.nodes) THEN [err |-> "ok", links |-> links, calls |-> <<>>]
    ELSE IF j > Len(n.nodes) THEN LinkLoopBothOrders(n, links, i + 1, 1)
    ELSE IF n.nodes[i].node_id = n.nodes[j].node_id
         THEN LinkLoopBothOrders(n, links, i, j + 1)
    ELSE LET pair == <<n.nodes[i].node_id, n.nodes[j].node_id>>
             rest == LinkLoopBothOrders(n, links, i, j + 1)
         IN  [rest EXCEPT !.calls = <<pair>> \o @]

\* Loops that add each approved link from the later node to the earlier.
RECURSIVE LinkLoopReversed(_, _, _, _)
LinkLoopReversed(n, links, i, j) ==
    IF i > Len(n.nodes) THEN [err |-> "ok", links |-> links, calls |-> <<>>]
    ELSE IF j > Len(n.nodes) THEN LinkLoopReversed(n, links, i + 1, i + 2)
    ELSE LET pair == <<n.nodes[i].node_id, n.nodes[j].node_id>>
             added == IF ValidateLink(n.link_rules, n.dimension_id_list,
                                      n.nodes[i].dim_values_dic, n.nodes[j].dim_values_dic)
                      THEN AddLink(n.nodes, links, pair[2], pair[1], "").links
                      ELSE links
         IN  [LinkLoopReversed(n, added, i, j + 1) EXCEPT !.calls = <<pair>> \o @]

\* The loops of construct_links from the pair (i, j) on, i < j positions in
\* node_ids = list(graph.nodes.keys()): the
\* error, the links, and the (source, target) pairs validate_link was called
\* with, in the order of the calls.
RECURSIVE LinkLoop(_, _, _, _)
LinkLoop(n, links, i, j) ==
    IF i > Len(n.nodes) THEN [err |-> "ok", links |-> links, calls |-> <<>>]
    ELSE IF j > Len(n.nodes) THEN LinkLoop(n, links, i + 1, i + 2)
    ELSE IF n.nodes[i].node_id = n.nodes[j].node_id THEN LinkLoop(n, links, i, j + 1)
    ELSE LET pair == <<n.nodes[i].node_id, n.nodes[j].node_id>>
         IN  IF ValidateLink(n.link_rules, n.dimension_id_list,
                             n.nodes[i].dim_values_dic, n.nodes[j].dim_values_dic)
             THEN LET r == AddLink(n.nodes, links, pair[1], pair[2], "")
                  IN  IF r.err # "ok"
                      THEN [err |-> r.err, links |-> r.links, calls |-> <<pair>>]
                      ELSE [LinkLoop(n, r.links, i, j + 1) EXCEPT !.calls = <<pair>> \o @]
             ELSE [LinkLoop(n, links, i, j + 1) EXCEPT !.calls = <<pair>> \o @]

\* HighDimNetwork.construct_links: calls are its validate_link calls.
ConstructLinks(n) ==
    LET r == LinkLoop(n, n.links, 1, 2)
    IN  [err |-> r.err, net |-> [n EXCEPT !.links = r.links], calls |-> r.calls]

\* HighDimNetwork.construct_network
ConstructNetwork(n) ==
    LET r == ConstructNodes(n)
    IN  IF r.err # "ok" THEN [err |-> r.err, net |-> r.net, calls |-> <<>>]
        ELSE ConstructLinks(r.net)

\* ------------------------------------------------------------------ merge

\* shared_dims that takes an id found in either network.
SharedDimsInEither(self, other, merge_dimensions) ==
    SelectSeq(merge_dimensions,
              LAMBDA d : d \in Range(self.dimension_id_list)
                         \/ d \in Range(other.dimension_id_list))

\* shared_dims of merge_networks
SharedDims(self, other, merge_dimensions) ==
    SelectSeq(merge_dimensions,
              LAMBDA d : d \in Range(self.dimension_id_list)
                         /\ d \in Range(other.dimension_id_list))

\* d.setdefault(dim.dim_id, dim): an existing key keeps its value.
DictSetDimKeepFirst(dims, dim) ==
    IF \E i \in 1..Len(dims) : dims[i].dim_id = dim.dim_id THEN dims ELSE Append(dims, dim)

\* d[dim.dim_id] = dim on an ordered dict of dimensions: an existing key keeps
\* its position and takes the new value.
DictSetDim(dims, dim) ==
    IF \E i \in 1..Len(dims) : dims[i].dim_id = dim.dim_id
    THEN [i \in 1..Len(dims) |-> IF dims[i].dim_id = dim.dim_id THEN dim ELSE dims[i]]
    ELSE Append(dims, dim)

\* list({dim.dim_id: dim for dim in dims}.values()), from position k on.
RECURSIVE DimDict(_, _, _)
DimDict(acc, dims, k) ==
    IF k > Len(dims) THEN acc ELSE DimDict(DictSetDim(acc, dims[k]), dims, k + 1)

\* merged_dimension_list of merge_networks
MergedDimensionList(self, other) ==
    DimDict(<<>>, self.dimension_list \o other.dimension_list, 1)

\* A rule loop in which a colliding rule replaces the one already there.
RECURSIVE RuleLoopLastWins(_, _, _)
RuleLoopLastWins(combined, rules, k) ==
    IF k > Len(rules) THEN combined
    ELSE IF \E i \in 1..Len(combined) : combined[i].rule_id = rules[k].rule_id
         THEN RuleLoopLastWins([i \in 1..Len(combined) |->
                                   IF combined[i].rule_id = rules[k].rule_id
                                   THEN rules[k] ELSE combined[i]], rules, k + 1)
         ELSE RuleLoopLastWins(Append(combined, rules[k]), rules, k + 1)

\* One of the two rule loops of merge_networks, from position k of `rules` on.
RECURSIVE RuleLoop(_, _, _)
RuleLoop(combined, rules, k) ==
    IF k > Len(rules) THEN combined
    ELSE IF \E i \in 1..Len(combined) : combined[i].rule_id = rules[k].rule_id
         THEN RuleLoop(combined, rules, k + 1)
         ELSE RuleLoop(AddLinkRule(combined, rules[k]).rules, rules, k + 1)

\* combined_rule_manager.link_rules of merge_networks
CombinedLinkRules(self, other) ==
    RuleLoop(RuleLoop(<<>>, self.link_rules, 1), other.link_rules, 1)

\* A combined network assembled from the nodes self's graph holds: a merged
\* node is kept when some node of self agrees with it on self's own dimensions.
CombinedNetworkFromOperandNodes(self, other) ==
    LET r == ConstructNetwork(HighDimNetwork(self.network_id \o "_" \o other.network_id,
                                             MergedDimensionList(self, other),
                                             CombinedLinkRules(self, other)))
        own == Range(self.dimension_id_list) \ Range(other.dimension_id_list)
        kept(x) == \E y \in Range(self.nodes) :
                      \A d \in own : y.dim_values_dic[d] = x.dim_values_dic[d]
    IN  [err |-> r.err,
         net |-> [r.net EXCEPT
                    !.nodes = SelectSeq(r.net.nodes, kept),
                    !.links = SelectSeq(r.net.links,
                                  LAMBDA l : \E x \in Range(r.net.nodes) :
                                                x.node_id = l.source /\ kept(x))]]

\* The network merge_networks constructs once the precondition has passed.
CombinedNetwork(self, other) ==
    ConstructNetwork(HighDimNetwork(self.network_id \o "_" \o other.network_id,
                                    MergedDimensionList(self, other),
                                    CombinedLinkRules(self, other)))

\* A merge that puts the nodes and links of both operands side by side.
MergeNetworksJoiningGraphs(self, other, merge_dimensions) ==
    IF SharedDims(self, other, merge_dimensions) = <<>>
    THEN [err |-> "no_shared_dimensions", net |-> self]
    ELSE [err |-> "ok",
          net |-> [HighDimNetwork(self.network_id \o "_" \o other.network_id,
                                  MergedDimensionList(self, other),
                                  CombinedLinkRules(self, other))
                     EXCEPT !.nodes = self.nodes \o other.nodes,
                            !.links = self.links \o other.links]]

\* A merge that puts the dimensions named in merge_dimensions first.
MergeNetworksListedFirst(self, other, merge_dimensions) ==
    IF SharedDims(self, other, merge_dimensions) = <<>>
    THEN [err |-> "no_shared_dimensions", net |-> self]
    ELSE LET dims == MergedDimensionList(self, other)
             listed(dim) == dim.dim_id \in Range(merge_dimensions)
             unlisted(dim) == dim.dim_id \notin Range(merge_dimensions)
         IN  ConstructNetwork(HighDimNetwork(self.network_id \o "_" \o other.network_id,
                                             SelectSeq(dims, listed) \o SelectSeq(dims, unlisted),
                                             CombinedLinkRules(self, other)))

\* HighDimNetwork.merge_networks: the error, and the network returned.
MergeNetworks(self, other, merge_dimensions) ==
    IF SharedDims(self, other, merge_dimensions) = <<>>
    THEN [err |-> "no_shared_dimensions", net |-> self]
    ELSE CombinedNetwork(self, other)

\* ---------------------------------------------------------------- removal

\* remove_link that returns quietly when the link is absent.
RemoveLinkQuiet(n, link_id) ==
    [err |-> "ok",
     net |-> [n EXCEPT !.links = SelectSeq(n.links, LAMBDA l : l.link_id # link_id),
                       !.link_mapping = n.link_mapping \ {link_id}]]

\* remove_link that also drops the source node of the link.
RemoveLinkAndSource(n, link_id) ==
    IF link_id \notin LinkIds(n.links)
    THEN [err |-> "link_missing", net |-> n]
    ELSE LET link == CHOOSE l \in Range(n.links) : l.link_id = link_id
         IN  [err |-> "ok",
              net |-> [n EXCEPT !.links = SelectSeq(n.links, LAMBDA l : l.link_id # link_id),
                                !.link_mapping = n.link_mapping \ {link_id},
                                !.nodes = SelectSeq(n.nodes,
                                              LAMBDA x : x.node_id # link.source)]]

\* HighDimNetwork.remove_link
RemoveLink(n, link_id) ==
    IF link_id \notin LinkIds(n.links)
    THEN [err |-> "link_missing", net |-> n]
    ELSE [err |-> "ok",
          net |-> [n EXCEPT !.links = SelectSeq(n.links, LAMBDA l : l.link_id # link_id),
                            !.link_mapping = n.link_mapping \ {link_id}]]

\* associated_links that misses the links whose target is the node.
AssociatedLinksSourceOnly(n, node_id) ==
    LET touching == SelectSeq(n.links, LAMBDA l : l.source = node_id)
    IN  [i \in 1..Len(touching) |-> touching[i].link_id]

\* associated_links of remove_node
AssociatedLinks(n, node_id) ==
    LET touching == SelectSeq(n.links, LAMBDA l : l.source = node_id \/ l.target = node_id)
    IN  [i \in 1..Len(touching) |-> touching[i].link_id]

\* A loop that removes the first associated link only.
RemoveLoopFirstOnly(n, ids, k) ==
    IF k > Len(ids) THEN [err |-> "ok", net |-> n]
    ELSE [err |-> "ok",
          net |-> [n EXCEPT !.links = SelectSeq(n.links, LAMBDA l : l.link_id # ids[k]),
                            !.link_mapping = n.link_mapping \ {ids[k]}]]

\* for link_id in associated_links: self.remove_link(link_id), from position k on.
RECURSIVE RemoveLoop(_, _, _)
RemoveLoop(n, ids, k) ==
    IF k > Len(ids) THEN [err |-> "ok", net |-> n]
    ELSE LET r == RemoveLink(n, ids[k])
         IN  IF r.err # "ok" THEN r ELSE RemoveLoop(r.net, ids, k + 1)

\* HighDimNetwork.remove_node
RemoveNode(n, node_id) ==
    IF node_id \notin NodeIds(n.nodes)
    THEN [err |-> "node_missing", net |-> n]
    ELSE LET r == RemoveLoop(n, AssociatedLinks(n, node_id), 1)
         IN  IF r.err # "ok" THEN r
             ELSE [err |-> "ok",
                   net |-> [r.net EXCEPT
                              !.nodes = SelectSeq(r.net.nodes, LAMBDA x : x.node_id # node_id),
                              !.node_mapping = r.net.node_mapping \ {node_id}]]

\* ----------------------------------------------------------------- inputs

\* The dimensions of main.py, cut down: X, and Y with scaled numeric values.
DimX == Dimension("X", <<"A", "B">>, 0, 1)

DimY == Dimension("Y", <<"1", "2">>, 1, 1)

\* A second definition of Y (other values, other coordinates), and Z.
DimY2 == Dimension("Y", <<"2", "3">>, 10, 5)

DimZ == Dimension("Z", <<"P", "Q">>, 0, 1)

\* Values that contain the separator: A_B + A and A + B_A join to one link id.
DimU == Dimension("U", <<"A_B", "A", "B_A">>, 0, 1)

\* Values that make two tuples join to one node id: (A, B_C) and (A_B, C).
DimV == Dimension("V", <<"A", "A_B">>, 0, 1)

DimW == Dimension("W", <<"B_C", "C">>, 0, 1)

NetXY ==
    HighDimNetwork("XY", <<DimX, DimY>>,
        <<NetworkRule("rule_link", <<"Y">>, <<Rule(<<"Y">>, "xy")>>)>>)

NetYZ ==
    HighDimNetwork("YZ", <<DimY2, DimZ>>,
        <<NetworkRule("rule_link", <<"Y", "Z">>, <<Rule(<<"Y", "Z">>, "yz")>>),
          NetworkRule("rule_z", <<"Z">>, <<Rule(<<"Z">>, "differ")>>)>>)

NetU == HighDimNetwork("U", <<DimU>>, <<>>)

NetVW == HighDimNetwork("VW", <<DimV, DimW>>, <<>>)

\* X and Y under a composite declared over Y and Z whose one subrule reads Y.
NetWide ==
    HighDimNetwork("XYw", <<DimX, DimY>>,
        <<NetworkRule("rule_wide", <<"Y", "Z">>, <<Rule(<<"Y">>, "xy")>>)>>)

\* X and Y under a manager with no rules.
NetFree == HighDimNetwork("XYf", <<DimX, DimY>>, <<>>)

\* The networks a run that edits rules starts from.
RuleNetworks == {NetXY, NetWide, NetFree, NetU}

\* The composites a caller creates and passes to add_link_rule.
NetworkRuleInputs ==
    {NetworkRule("rule_link", <<"Y">>, <<>>),
     NetworkRule("rule_z", <<"Z">>, <<>>),
     NetworkRule("rule_yz", <<"Y", "Z">>, <<>>)}

\* The rules a caller creates and passes to add_subrule.
RuleInputs == {Rule(<<"Y">>, "xy"), Rule(<<"Z">>, "differ"), Rule(<<"X">>, "same")}

\* The networks a run on one network starts from.
Networks == {NetXY, NetYZ, NetU, NetVW}

\* The pairs of networks a run with merges starts from.
Scenarios == {<<NetXY, NetYZ>>, <<NetU, NetVW>>}

\* The merge_dimensions arguments tried.
MergeDimensionInputs == {<<>>, <<"Y">>, <<"Z", "Y">>, <<"U", "X">>}

\* The values, start and step arguments Dimension(...) is called with: values
\* with and without a repeated value, steps forward, backward and of zero.
ValuesInputs == {<<"A", "B">>, <<"A", "B", "C">>, <<"A", "B", "A">>}

StartInputs == {0, 10}

StepInputs == {-1, 0, 1, 5}

\* The value arguments get_coordinate is called with.
ValueInputs == {"A", "B", "C", "Q"}

\* The dimension_list arguments passed to project_to_dimensions: lists of
\* known ids (none, one, two, one twice) and lists with an unknown id.
ProjectInputs ==
    {<<>>, <<"X">>, <<"Y", "X">>, <<"Z", "Y">>, <<"U">>, <<"X", "X">>, <<"X", "Q">>}

\* The key at position i of an ordered dict, or an id that is no key.
NodeAt(n, i) == IF i <= Len(n.nodes) THEN n.nodes[i].node_id ELSE "ghost"

LinkAt(n, i) == IF i <= Len(n.links) THEN n.links[i].link_id ELSE "ghost"

\* Node ids a caller passes to remove_node: the first two nodes and no node.
NodePicks(n) == {NodeAt(n, 1), NodeAt(n, 2), "ghost"}

\* Link ids a caller passes to remove_link: the first two links and no link.
LinkPicks(n) == {LinkAt(n, 1), LinkAt(n, 2), "ghost"}

\* (source_id, target_id, link_id) a caller passes to add_link: a new link
\* with the default id, links under a chosen id and under the id of an
\* existing link, and endpoints that are no nodes.
AddLinkInputs(n) ==
    {<<NodeAt(n, 1), NodeAt(n, 2), "">>,
     <<NodeAt(n, 2), NodeAt(n, 1), "L">>,
     <<NodeAt(n, 2), NodeAt(n, 2), LinkAt(n, 1)>>,
     <<NodeAt(n, 1), "ghost", "">>,
     <<"ghost", NodeAt(n, 2), "L">>}

\* ------------------------------------------------------------ transitions

NoCall ==
    [op |-> "none", net |-> "", other |-> "", id |-> "", source |-> "", target |-> "",
     dims |-> <<>>, pos |-> 0, rule |-> <<>>, result |-> <<>>, err |-> "ok"]

\* One network, as constructed by HighDimNetwork(...).
Init ==
    /\ \E n \in Networks : net = [k \in {"N1"} |-> n]
    /\ last = NoCall
    /\ prev = net
    /\ ncalls = 0

\* Two networks, as constructed.
InitMerge ==
    /\ \E s \in Scenarios : net = [k \in {"N1", "N2"} |-> IF k = "N1" THEN s[1] ELSE s[2]]
    /\ last = NoCall
    /\ prev = net
    /\ ncalls = 0

\* One network whose rules are edited: "R" names it.
InitRule ==
    /\ \E n \in RuleNetworks : net = [k \in {"R"} |-> n]
    /\ last = NoCall
    /\ prev = net
    /\ ncalls = 0

\* One network whose graph is projected: "P" names it.
InitProject ==
    /\ \E n \in Networks : net = [k \in {"P"} |-> n]
    /\ last = NoCall
    /\ prev = net
    /\ ncalls = 0

\* dim = Dimension(dim_id, values, start=start, step=step), with the start and
\* step it was called with (the object keeps only the coordinates).
NewDimension(dim_id, values, start, step) ==
    [dim |-> Dimension(dim_id, values, start, step), start |-> start, step |-> step]

\* One dimension: "D" names it.
InitDimension ==
    /\ \E values \in ValuesInputs, start \in StartInputs, step \in StepInputs :
          net = [k \in {"D"} |-> NewDimension("D", values, start, step)]
    /\ last = NoCall
    /\ prev = net
    /\ ncalls = 0

\* The number of calls a run makes, by the networks the run is about.
CallLimit ==
    CASE "N2" \in DOMAIN net -> MaxMergeCalls
      [] "R" \in DOMAIN net -> MaxRuleCalls
      [] "P" \in DOMAIN net -> MaxProjectCalls
      [] "D" \in DOMAIN net -> MaxDimensionCalls
      [] OTHER -> MaxCalls

\* A call on network k that ended with r = [err, net]: an exception leaves
\* whatever the call had changed before it was raised.
Called(k, r, call) ==
    /\ ncalls < CallLimit
    /\ net' = [net EXCEPT ![k] = r.net]
    /\ last' = [call EXCEPT !.net = k, !.err = r.err]
    /\ prev' = net
    /\ ncalls' = ncalls + 1

construct_nodes(k) ==
    Called(k, ConstructNodes(net[k]), [NoCall EXCEPT !.op = "construct_nodes"])

construct_links(k) ==
    LET r == ConstructLinks(net[k])
    IN  Called(k, r, [NoCall EXCEPT !.op = "construct_links", !.result = r.calls])

construct_network(k) ==
    LET r == ConstructNetwork(net[k])
    IN  Called(k, r, [NoCall EXCEPT !.op = "construct_network", !.result = r.calls])

add_link(k, source_id, target_id, link_id) ==
    LET r == AddLink(net[k].nodes, net[k].links, source_id, target_id, link_id)
    IN  Called(k, [err |-> r.err, net |-> [net[k] EXCEPT !.links = r.links]],
               [NoCall EXCEPT !.op = "add_link", !.source = source_id,
                              !.target = target_id, !.id = link_id])

remove_node(k, node_id) ==
    Called(k, RemoveNode(net[k], node_id),
           [NoCall EXCEPT !.op = "remove_node", !.id = node_id])

remove_link(k, link_id) ==
    Called(k, RemoveLink(net[k], link_id),
           [NoCall EXCEPT !.op = "remove_link", !.id = link_id])

\* net[k].rule_manager.add_link_rule(nrule)
add_link_rule(k, nrule) ==
    LET r == AddLinkRule(net[k].link_rules, nrule)
    IN  Called(k, [err |-> r.err, net |-> [net[k] EXCEPT !.link_rules = r.rules]],
               [NoCall EXCEPT !.op = "add_link_rule", !.rule = nrule])

\* add_subrule(rule) on the composite at position pos of the manager of k.
add_subrule(k, pos, rule) ==
    /\ pos \in 1..Len(net[k].link_rules)
    /\ LET r == AddSubrule(net[k].link_rules[pos], rule)
       IN  Called(k, [err |-> r.err, net |-> [net[k] EXCEPT !.link_rules[pos] = r.nrule]],
                  [NoCall EXCEPT !.op = "add_subrule", !.pos = pos, !.rule = rule])

\* net[k].graph.project_to_dimensions(dimension_list): result is what it
\* returns, and nothing when it raises.
project_to_dimensions(k, dimension_list) ==
    LET r == ProjectToDimensions(net[k].dimension_id_list, net[k].nodes, net[k].links,
                                 dimension_list)
    IN  Called(k, [err |-> r.err, net |-> net[k]],
               [NoCall EXCEPT !.op = "project_to_dimensions", !.dims = dimension_list,
                              !.result = r.result])

\* k = Dimension(k, values, start=start, step=step): the name k now refers to
\* the new dimension.
dimension(k, values, start, step) ==
    Called(k, [err |-> "ok", net |-> NewDimension(k, values, start, step)],
           [NoCall EXCEPT !.op = "Dimension", !.dims = values])

\* net[k].get_coordinate(value): result is what it returns.
get_coordinate(k, value) ==
    LET r == GetCoordinate(net[k].dim, value)
    IN  Called(k, [err |-> r.err, net |-> net[k]],
               [NoCall EXCEPT !.op = "get_coordinate", !.id = value, !.result = r.value])

\* A merge that builds its result in the receiver and returns the receiver.
merge_networks_in_place(a, b, merge_dimensions) ==
    LET r == MergeNetworks(net[a], net[b], merge_dimensions)
    IN  /\ ncalls < CallLimit
        /\ net' = IF r.err = "ok"
                  THEN [k \in DOMAIN net \cup {"M"} |-> IF k \in {"M", a} THEN r.net ELSE net[k]]
                  ELSE net
        /\ last' = [NoCall EXCEPT !.op = "merge_networks", !.net = a, !.other = b,
                                  !.dims = merge_dimensions, !.err = r.err]
        /\ prev' = net
        /\ ncalls' = ncalls + 1

\* merged = a.merge_networks(b, merge_dimensions): "M" names the network
\* returned; when the call raises nothing is returned.
merge_networks(a, b, merge_dimensions) ==
    LET r == MergeNetworks(net[a], net[b], merge_dimensions)
    IN  /\ ncalls < CallLimit
        /\ net' = IF r.err = "ok"
                  THEN [k \in DOMAIN net \cup {"M"} |-> IF k = "M" THEN r.net ELSE net[k]]
                  ELSE net
        /\ last' = [NoCall EXCEPT !.op = "merge_networks", !.net = a, !.other = b,
                                  !.dims = merge_dimensions, !.err = r.err]
        /\ prev' = net
        /\ ncalls' = ncalls + 1

\* Calls on one network.
Next ==
    \/ \E k \in DOMAIN net : construct_nodes(k)
    \/ \E k \in DOMAIN net : construct_links(k)
    \/ \E k \in DOMAIN net : construct_network(k)
    \/ \E k \in DOMAIN net : \E in \in AddLinkInputs(net[k]) :
          add_link(k, in[1], in[2], in[3])
    \/ \E k \in DOMAIN net : \E id \in NodePicks(net[k]) : remove_node(k, id)
    \/ \E k \in DOMAIN net : \E id \in LinkPicks(net[k]) : remove_link(k, id)

Spec == Init /\ [][Next]_vars

\* Calls on two networks and on the network their merge returns.
NextMerge ==
    \/ \E k \in DOMAIN net : construct_network(k)
    \/ \E k \in DOMAIN net : \E id \in {NodeAt(net[k], 1), "ghost"} : remove_node(k, id)
    \/ \E k \in DOMAIN net : remove_link(k, LinkAt(net[k], 1))
    \/ \E a \in {"N1", "N2"}, b \in {"N1", "N2"} :
          \E md \in MergeDimensionInputs : merge_networks(a, b, md)

MergeSpec == InitMerge /\ [][NextMerge]_vars

\* Calls that edit the rules of one network and construct it.
NextRule ==
    \/ \E k \in DOMAIN net : \E nrule \in NetworkRuleInputs : add_link_rule(k, nrule)
    \/ \E k \in DOMAIN net : \E pos \in 1..2 : \E rule \in RuleInputs :
          add_subrule(k, pos, rule)
    \/ \E k \in DOMAIN net : construct_nodes(k)
    \/ \E k \in DOMAIN net : construct_links(k)
    \/ \E k \in DOMAIN net : construct_network(k)

RuleSpec == InitRule /\ [][NextRule]_vars

\* Calls that build, cut and project the graph of one network.
NextProject ==
    \/ \E k \in DOMAIN net : construct_network(k)
    \/ \E k \in DOMAIN net : remove_node(k, NodeAt(net[k], 1))
    \/ \E k \in DOMAIN net : remove_link(k, LinkAt(net[k], 1))
    \/ \E k \in DOMAIN net : \E dimension_list \in ProjectInputs :
          project_to_dimensions(k, dimension_list)

ProjectSpec == InitProject /\ [][NextProject]_vars

\* Calls on one dimension.
NextDimension ==
    \/ \E k \in DOMAIN net : \E values \in ValuesInputs, start \in StartInputs,
                                  step \in StepInputs : dimension(k, values, start, step)
    \/ \E k \in DOMAIN net : \E value \in ValueInputs : get_coordinate(k, value)

DimensionSpec == InitDimension /\ [][NextDimension]_vars

\* ================================================================ claims

\* The call made last, on receiver k, ended without an exception.
Returned(op) == last.op = op /\ last.err = "ok"

\* C1: in every reachable state every link of graph.links has its source and
\* its target among the keys of graph.nodes.
C1_NoDanglingLink ==
    \A k \in DOMAIN net : \A i \in 1..Len(net[k].links) :
        /\ net[k].links[i].source \in NodeIds(net[k].nodes)
        /\ net[k].links[i].target \in NodeIds(net[k].nodes)

\* remove_node took out a node that was the target of one link and the source
\* of another, and links remain.
C1_Witness ==
    /\ Returned("remove_node")
    /\ \E i \in 1..Len(prev[last.net].links) : prev[last.net].links[i].target = last.id
    /\ \E i \in 1..Len(prev[last.net].links) : prev[last.net].links[i].source = last.id
    /\ net[last.net].links # <<>>

\* ---------------------------------------------------------------- C2, C3

\* The receiver of the last call, now and just before the call.
Now == net[last.net]

Before == prev[last.net]

\* construct_network has returned on a network that held no node and no link.
FreshlyConstructed ==
    /\ Returned("construct_network")
    /\ Before.nodes = <<>>
    /\ Before.links = <<>>

\* The Cartesian product of the dimensions' values, as a set of tuples.
Tuples(dims) ==
    {t \in [1..Len(dims) -> UNION {Range(dims[i].values) : i \in 1..Len(dims)}] :
        \A i \in 1..Len(dims) : t[i] \in Range(dims[i].values)}

\* The product of the dimensions' value counts.
RECURSIVE ValueCountProduct(_)
ValueCountProduct(dims) ==
    IF dims = <<>> THEN 1 ELSE Len(Head(dims).values) * ValueCountProduct(Tail(dims))

\* The tuple a node stands for.
TupleOf(node, dims) == [i \in 1..Len(dims) |-> node.dim_values_dic[dims[i].dim_id]]

\* C2: after construct_network on a fresh network the graph holds exactly one
\* node per tuple of the Cartesian product of the dimensions' values, with
\* node_id the tuple joined by "_": the node count is the product of the value
\* counts, the ids are pairwise distinct, and no rule has filtered a node.
C2_OneNodePerTuple ==
    FreshlyConstructed =>
        LET dims == Now.dimension_list
            nodes == Now.nodes
        IN  /\ Len(nodes) = ValueCountProduct(dims)
            /\ \A i, j \in 1..Len(nodes) : nodes[i].node_id = nodes[j].node_id => i = j
            /\ \A t \in Tuples(dims) :
                  Cardinality({i \in 1..Len(nodes) : TupleOf(nodes[i], dims) = t}) = 1
            /\ \A i \in 1..Len(nodes) :
                  /\ TupleOf(nodes[i], dims) \in Tuples(dims)
                  /\ nodes[i].node_id = Join(TupleOf(nodes[i], dims))
                  /\ \A d \in 1..Len(dims) :
                        nodes[i].coordinates_dic[dims[d].dim_id]
                            = dims[d].coordinates[TupleOf(nodes[i], dims)[d]]

\* A fresh two-dimensional network was constructed under a rule that rejects
\* some pairs: all four nodes are there although not all six links are.
C2_Witness ==
    /\ FreshlyConstructed
    /\ Len(Now.dimension_list) = 2
    /\ Len(Now.nodes) = 4
    /\ Now.link_rules # <<>>
    /\ Len(Now.links) \in 1..5

\* The pairs of positions (i, j), i before j, that the rule manager approves.
ApprovedPairs(n) ==
    {p \in (1..Len(n.nodes)) \X (1..Len(n.nodes)) :
        /\ p[1] < p[2]
        /\ ValidateLink(n.link_rules, n.dimension_id_list,
                        n.nodes[p[1]].dim_values_dic, n.nodes[p[2]].dim_values_dic)}

\* C3 (as claimed): after construct_network on a fresh network, for nodes a
\* before b the graph holds a link with id a_b, source a and target b exactly
\* when validate_link approves (a, b); there are no other links, so the number
\* of links is the number of approved pairs.
C3_LinksAreTheApprovedPairs ==
    FreshlyConstructed =>
        LET n == Now
            has(i, j) == \E l \in Range(n.links) :
                            /\ l.link_id = n.nodes[i].node_id \o "_" \o n.nodes[j].node_id
                            /\ l.source = n.nodes[i].node_id
                            /\ l.target = n.nodes[j].node_id
        IN  /\ \A i, j \in 1..Len(n.nodes) : i < j => (has(i, j) <=> <<i, j>> \in ApprovedPairs(n))
            /\ \A l \in Range(n.links) : \E p \in ApprovedPairs(n) :
                  /\ l.source = n.nodes[p[1]].node_id
                  /\ l.target = n.nodes[p[2]].node_id
            /\ Len(n.links) = Cardinality(ApprovedPairs(n))

\* ---------------------------------------------------------------- C4

\* The id add_link stores the link under.
EffectiveLinkId == IF last.id = "" THEN last.source \o "_" \o last.target ELSE last.id

\* C4 (as claimed): ids are unique within a graph, and adding a node or a link
\* whose id is already a key fails with an error and leaves the entry stored
\* under that id as it was.
C4_DuplicateIdRejected ==
    /\ \A k \in DOMAIN net :
          /\ \A i, j \in 1..Len(net[k].nodes) :
                net[k].nodes[i].node_id = net[k].nodes[j].node_id => i = j
          /\ \A i, j \in 1..Len(net[k].links) :
                net[k].links[i].link_id = net[k].links[j].link_id => i = j
    /\ (last.op \in {"construct_nodes", "construct_network"} /\ last.err = "node_exists")
          => \A i \in 1..Len(Before.nodes) : Now.nodes[i] = Before.nodes[i]
    /\ (last.op = "add_link" /\ EffectiveLinkId \in LinkIds(Before.links))
          => /\ last.err # "ok"
             /\ Now.links = Before.links

\* ---------------------------------------------------------------- C5, C6

\* The links of n that touch node x.
Touching(n, x) == {l \in Range(n.links) : l.source = x \/ l.target = x}

\* C5: remove_node(X) with X in the graph removes X, every link whose source
\* or target is X, X's node_mapping entry and those links' link_mapping
\* entries, and leaves every other node, link and mapping entry (and every
\* other network) as it was.
C5_RemoveNodeCascade ==
    (last.op = "remove_node" /\ last.id \in NodeIds(Before.nodes)) =>
        LET gone == {l.link_id : l \in Touching(Before, last.id)}
        IN  /\ last.err = "ok"
            /\ Now.nodes = SelectSeq(Before.nodes, LAMBDA x : x.node_id # last.id)
            /\ Now.links = SelectSeq(Before.links,
                                     LAMBDA l : l.source # last.id /\ l.target # last.id)
            /\ Now.node_mapping = Before.node_mapping \ {last.id}
            /\ Now.link_mapping = Before.link_mapping \ gone
            /\ Now.dimension_list = Before.dimension_list
            /\ Now.link_rules = Before.link_rules
            /\ \A k \in DOMAIN net : k # last.net => net[k] = prev[k]

\* remove_node took out a node with at least two links and left both other
\* nodes and links that do not touch it.
C5_Witness ==
    /\ Returned("remove_node")
    /\ Cardinality(Touching(Before, last.id)) >= 2
    /\ Len(Now.links) >= 2
    /\ Len(Now.nodes) >= 3

\* C6: remove_node of an id that is no node and remove_link of an id that is no
\* link fail with an error and leave nodes, links, node_mapping and
\* link_mapping as they were.
C6_RemoveAbsentFails ==
    /\ (last.op = "remove_node" /\ last.id \notin NodeIds(Before.nodes))
          => last.err # "ok" /\ net = prev
    /\ (last.op = "remove_link" /\ last.id \notin LinkIds(Before.links))
          => last.err # "ok" /\ net = prev

\* remove_link was called with an id that is no link, on a graph that holds
\* nodes and links.
C6_Witness ==
    /\ last.op = "remove_link"
    /\ last.id \notin LinkIds(Before.links)
    /\ Before.links # <<>>
    /\ last.err = "link_missing"

\* ---------------------------------------------------------------- C7

\* The operands of the last merge_networks call, as they were at the call,
\* and the network it returned.
Self == prev[last.net]

Other == prev[last.other]

Merged == net["M"]

DimIds(n) == {n.dimension_list[i].dim_id : i \in 1..Len(n.dimension_list)}

\* The definition of dimension id d in network n.
DimOf(n, d) == CHOOSE x \in Range(n.dimension_list) : x.dim_id = d

RuleIds(n) == {n.link_rules[i].rule_id : i \in 1..Len(n.link_rules)}

\* The composite stored under rule id r in network n.
RuleOf(n, r) == CHOOSE x \in Range(n.link_rules) : x.rule_id = r

\* C7: merge_networks fails on its precondition, having built nothing, exactly
\* when no id of merge_dimensions is a dimension id of both operands.
C7_MergePrecondition ==
    last.op = "merge_networks" =>
        LET shared == Range(last.dims) \cap Range(Self.dimension_id_list)
                                      \cap Range(Other.dimension_id_list)
        IN  /\ last.err = "no_shared_dimensions" <=> shared = {}
            /\ last.err = "no_shared_dimensions" => net = prev

\* A merge was refused although merge_dimensions named a dimension of self
\* (not of other), and another accepted.
C7_Witness ==
    /\ last.op = "merge_networks"
    /\ last.err = "no_shared_dimensions"
    /\ \E d \in Range(last.dims) :
          d \in Range(Self.dimension_id_list) /\ d \notin Range(Other.dimension_id_list)

\* ---------------------------------------------------------------- C8, C9

\* C8: the merged dimension list holds one Dimension per distinct id of the
\* operands; an id defined by both gets other's definition, and the merged
\* nodes take that dimension's values and coordinates from other.
C8_DimensionsSecondWins ==
    Returned("merge_networks") =>
        LET dims == Merged.dimension_list
        IN  /\ \A i, j \in 1..Len(dims) : dims[i].dim_id = dims[j].dim_id => i = j
            /\ DimIds(Merged) = DimIds(Self) \cup DimIds(Other)
            /\ \A d \in DimIds(Other) : DimOf(Merged, d) = DimOf(Other, d)
            /\ \A d \in DimIds(Self) \ DimIds(Other) : DimOf(Merged, d) = DimOf(Self, d)
            /\ \A x \in Range(Merged.nodes) : \A d \in DimIds(Other) :
                  /\ x.dim_values_dic[d] \in Range(DimOf(Other, d).values)
                  /\ x.coordinates_dic[d] = DimOf(Other, d).coordinates[x.dim_values_dic[d]]

\* Two networks that define one dimension id differently were merged.
C8_Witness ==
    /\ Returned("merge_networks")
    /\ \E d \in DimIds(Self) \cap DimIds(Other) :
          /\ DimOf(Self, d).values # DimOf(Other, d).values
          /\ DimOf(Self, d).coordinates # DimOf(Other, d).coordinates
    /\ Merged.nodes # <<>>

\* C9: the merged rule manager's keys are the union of the operands' rule ids;
\* an id held by both gets self's composite, and other's is dropped without an
\* error.
C9_RulesFirstWins ==
    /\ last.op = "merge_networks" => last.err # "rule_exists"
    /\ Returned("merge_networks") =>
          /\ \A i, j \in 1..Len(Merged.link_rules) :
                Merged.link_rules[i].rule_id = Merged.link_rules[j].rule_id => i = j
          /\ RuleIds(Merged) = RuleIds(Self) \cup RuleIds(Other)
          /\ \A r \in RuleIds(Self) : RuleOf(Merged, r) = RuleOf(Self, r)
          /\ \A r \in RuleIds(Other) \ RuleIds(Self) : RuleOf(Merged, r) = RuleOf(Other, r)

\* Two networks that hold different composites under one rule id were merged.
C9_Witness ==
    /\ Returned("merge_networks")
    /\ \E r \in RuleIds(Self) \cap RuleIds(Other) : RuleOf(Self, r) # RuleOf(Other, r)
    /\ \E r \in RuleIds(Merged) : r \notin RuleIds(Self)

\* ---------------------------------------------------------------- C10

\* C10: the graph of the network merge_networks returns is the graph that
\* construct_network builds on a fresh network over the merged dimension list
\* and the merged rule manager: one node per tuple of the union dimension
\* space, whatever nodes and links the operands' graphs hold.
C10_MergedGraphIsReconstruction ==
    Returned("merge_networks") =>
        LET fresh == ConstructNetwork(HighDimNetwork(Merged.network_id,
                                                     Merged.dimension_list,
                                                     Merged.link_rules))
        IN  /\ fresh.err = "ok"
            /\ Merged.nodes = fresh.net.nodes
            /\ Merged.links = fresh.net.links
            /\ Merged.dimension_list = MergedDimensionList(Self, Other)
            /\ Merged.link_rules = CombinedLinkRules(Self, Other)
            /\ {x.node_id : x \in Range(Merged.nodes)}
                  = {Join(t) : t \in Tuples(Merged.dimension_list)}
            /\ Len(Merged.nodes) = ValueCountProduct(Merged.dimension_list)
            /\ \A l \in Range(Merged.links) :
                  /\ l.source \in NodeIds(Merged.nodes)
                  /\ l.target \in NodeIds(Merged.nodes)

\* A merge returned although self had been constructed and had then lost a
\* node, and other had never been constructed.
C10_Witness ==
    /\ Returned("merge_networks")
    /\ Self.nodes # <<>>
    /\ Len(Self.nodes) < ValueCountProduct(Self.dimension_list)
    /\ Other.nodes = <<>>
    /\ Len(Merged.nodes) = 8

\* C11: merge_networks leaves both operands as they were, whether it returns
\* or raises: their nodes, links, dimension list, link rules and provenance
\* maps are those of before the call; and a remove_node or remove_link on one
\* network (the merged one or an operand) changes no other network.
C11_MergeLeavesOperands ==
    /\ last.op = "merge_networks" =>
          /\ \A k \in {last.net, last.other} : net[k] = prev[k]
          /\ last.err # "ok" => net = prev
    /\ last.op \in {"remove_node", "remove_link"} =>
          \A k \in DOMAIN prev \ {last.net} : net[k] = prev[k]

\* A node was removed from the merged network while an operand has a node of
\* that id, which it keeps.
C11_Witness ==
    /\ Returned("remove_node")
    /\ last.net = "M"
    /\ \E k \in {"N1", "N2"} : last.id \in NodeIds(net[k].nodes)

\* C12: a construct_network or merge_networks call that raises leaves every
\* network as it was before the call: no node or link it added remains.
C12_AllOrNothing ==
    (last.op \in {"construct_network", "merge_networks"} /\ last.err # "ok") => net = prev

\* The ids of a list of dimension ids are all in the context ctx.
InScope(dimensions, ctx) == Range(dimensions) \subseteq Range(ctx)

\* The last call was a construct_links or a construct_network that returned.
LinksBuilt == Returned("construct_links") \/ Returned("construct_network")

\* C13: a rule, and a composite rule, whose declared dimensions are not all in
\* the network's dimension id list is false for every pair of nodes; a manager
\* holding such a composite approves no pair, so building the links of its
\* network adds none.
C13_OutOfScopeRejects ==
    /\ \A k \in DOMAIN net :
          LET n == net[k]
              ctx == n.dimension_id_list
          IN  \A i \in 1..Len(n.link_rules) : \A a, b \in Range(n.nodes) :
                LET c == n.link_rules[i]
                IN  /\ \A m \in 1..Len(c.rules) :
                          ~ InScope(c.rules[m].dimensions, ctx) =>
                              ~ RuleValidate(c.rules[m], ctx, a.dim_values_dic, b.dim_values_dic)
                    /\ ~ InScope(c.dimensions, ctx) =>
                          /\ ~ NetworkRuleValidate(c, ctx, a.dim_values_dic, b.dim_values_dic)
                          /\ ~ ValidateLink(n.link_rules, ctx, a.dim_values_dic, b.dim_values_dic)
    /\ (/\ LinksBuilt
        /\ \E i \in 1..Len(Before.link_rules) :
              ~ InScope(Before.link_rules[i].dimensions, Before.dimension_id_list))
       => Now.links = Before.links

\* C14: validate_link is true of a pair of nodes exactly when every composite
\* of the manager is; and once the links of a network with no rules are built,
\* every pair of distinct nodes has a link from the earlier to the later node.
C14_AllCompositesAndEmptyManager ==
    /\ \A k \in DOMAIN net : \A a, b \in Range(net[k].nodes) :
          ValidateLink(net[k].link_rules, net[k].dimension_id_list,
                       a.dim_values_dic, b.dim_values_dic)
          <=> \A c \in Range(net[k].link_rules) :
                 NetworkRuleValidate(c, net[k].dimension_id_list,
                                     a.dim_values_dic, b.dim_values_dic)
    /\ (LinksBuilt /\ Before.link_rules = <<>>) =>
          \A i, j \in 1..Len(Now.nodes) :
              i < j => \E l \in Range(Now.links) :
                          /\ l.source = Now.nodes[i].node_id
                          /\ l.target = Now.nodes[j].node_id

\* C15: a composite is true of a pair of nodes exactly when one of its member
\* rules is, a composite with no member is false of every pair, and building
\* the links of a network whose manager holds a composite with no member adds
\* no link.
C15_AnyMemberAndEmptyComposite ==
    /\ \A k \in DOMAIN net : \A c \in Range(net[k].link_rules) :
          \A a, b \in Range(net[k].nodes) :
            LET holds == NetworkRuleValidate(c, net[k].dimension_id_list,
                                             a.dim_values_dic, b.dim_values_dic)
            IN  /\ holds <=> \E r \in Range(c.rules) :
                                RuleValidate(r, net[k].dimension_id_list,
                                             a.dim_values_dic, b.dim_values_dic)
                /\ c.rules = <<>> => ~ holds
    /\ (LinksBuilt /\ \E c \in Range(Before.link_rules) : c.rules = <<>>)
          => Now.links = Before.links

\* A network whose only composite has no member was constructed: it has
\* nodes and no link.
C15_Witness ==
    /\ Returned("construct_network")
    /\ \E c \in Range(Before.link_rules) : c.rules = <<>>
    /\ Len(Now.nodes) >= 2
    /\ Now.links = <<>>

\* C20: add_subrule(rule) on a composite raises and changes nothing when a
\* dimension of rule is not among the composite's dimensions; otherwise it
\* appends rule to the composite's members and changes nothing else; and in
\* every state the dimensions of each member are among its composite's.
C20_AddSubruleKeepsScope ==
    /\ last.op = "add_subrule" =>
          LET c == Before.link_rules[last.pos]
          IN  IF \E d \in Range(last.rule.dimensions) : d \notin Range(c.dimensions)
              THEN last.err # "ok" /\ net = prev
              ELSE /\ last.err = "ok"
                   /\ Now.link_rules[last.pos].rules = Append(c.rules, last.rule)
                   /\ net = [prev EXCEPT ![last.net].link_rules[last.pos].rules =
                                              Append(c.rules, last.rule)]
    /\ \A k \in DOMAIN net : \A c \in Range(net[k].link_rules) : \A r \in Range(c.rules) :
          InScope(r.dimensions, c.dimensions)

\* A rule over a dimension the composite does not declare was refused by a
\* composite that already has a member.
C20_Witness ==
    /\ last.op = "add_subrule"
    /\ last.err # "ok"
    /\ Before.link_rules[last.pos].rules # <<>>
    /\ ~ InScope(last.rule.dimensions, Before.link_rules[last.pos].dimensions)

\* C16: a projection onto ids that are all dimension ids of the graph returns
\* one entry per node of the graph, with the node's coordinates on exactly
\* the requested ids, and one entry per link, with those maps for its source
\* and its target.
C16_ProjectionIsComplete ==
    (last.op = "project_to_dimensions" /\ InScope(last.dims, Before.dimension_id_list)) =>
        /\ last.err = "ok"
        /\ Len(last.result.nodes) = Len(Before.nodes)
        /\ \A node \in Range(Before.nodes) :
              \E i \in 1..Len(last.result.nodes) :
                  /\ last.result.nodes[i].node_id = node.node_id
                  /\ last.result.nodes[i].coordinates =
                         [d \in Range(last.dims) |-> node.coordinates_dic[d]]
        /\ Len(last.result.links) = Len(Before.links)
        /\ \A link \in Range(Before.links) :
              \E i \in 1..Len(last.result.links) :
                  LET p == last.result.links[i]
                  IN  /\ p.link_id = link.link_id
                      /\ p.source.node_id = link.source
                      /\ p.target.node_id = link.target
                      /\ p.source.coordinates =
                            [d \in Range(last.dims) |->
                                NodeById(Before.nodes, link.source).coordinates_dic[d]]
                      /\ p.target.coordinates =
                            [d \in Range(last.dims) |->
                                NodeById(Before.nodes, link.target).coordinates_dic[d]]

\* C17: a projection onto a list with an id that is no dimension id of the
\* graph raises and returns nothing; and a projection, raised or returned,
\* leaves the network as it was.
C17_UnknownDimensionFails ==
    last.op = "project_to_dimensions" =>
        /\ net = prev
        /\ ~ InScope(last.dims, Before.dimension_id_list) =>
              last.err # "ok" /\ last.result = <<>>

\* A graph with nodes and links was asked for a projection onto a known and
\* an unknown id, and refused.
C17_Witness ==
    /\ last.op = "project_to_dimensions"
    /\ last.err # "ok"
    /\ Now.links # <<>>
    /\ \E d \in Range(last.dims) : d \in Range(Now.dimension_id_list)
    /\ \E d \in Range(last.dims) : d \notin Range(Now.dimension_id_list)

\* The graph of n is the one construct_network builds from n's dimensions and
\* rules, and construct_network returns on them.
Constructed(n) ==
    LET r == ConstructNetwork(HighDimNetwork(n.network_id, n.dimension_list, n.link_rules))
    IN  /\ r.err = "ok"
        /\ n.nodes = r.net.nodes
        /\ n.nodes # <<>>
        /\ n.links = r.net.links

\* The (source, target) pairs of the links of n.
LinkPairs(n) == {<<n.links[i].source, n.links[i].target>> : i \in 1..Len(n.links)}

\* C18: merging a constructed network with itself, under a merge list that
\* has one of its dimension ids, returns; the merged network has as many
\* nodes as the product of the value counts of the operand's dimensions, the
\* node ids of the operand and the (source, target) pairs of its links.
C18_SelfMergeIsIdempotent ==
    (/\ last.op = "merge_networks"
     /\ last.net = last.other
     /\ Constructed(Self)
     /\ \E d \in Range(last.dims) : d \in DimIds(Self))
    => /\ last.err = "ok"
       /\ Len(Merged.nodes) = ValueCountProduct(Self.dimension_list)
       /\ NodeIds(Merged.nodes) = NodeIds(Self.nodes)
       /\ LinkPairs(Merged) = LinkPairs(Self)

\* A constructed network with links was merged with itself.
C18_Witness ==
    /\ Returned("merge_networks")
    /\ last.net = last.other
    /\ Constructed(Self)
    /\ Self.links # <<>>
    /\ Len(Merged.nodes) < 2 * Len(Self.nodes)

\* values.index(value), counted from zero.
IndexOf(values, value) ==
    (CHOOSE i \in 1..Len(values) :
        values[i] = value /\ \A j \in 1..Len(values) : values[j] = value => i <= j) - 1

\* C19: the coordinates of a dimension are defined for exactly its values,
\* the coordinate of a value is start + index * step, a value later in the
\* list has a greater coordinate, and get_coordinate returns that coordinate
\* for a value of the dimension and raises for any other value.
C19_CoordinatesAreLinearAndIncreasing ==
    \A k \in DOMAIN net :
        LET d == net[k].dim
            start == net[k].start
            step == net[k].step
        IN  /\ DOMAIN d.coordinates = Range(d.values)
            /\ \A v \in Range(d.values) :
                  d.coordinates[v] = start + IndexOf(d.values, v) * step
            /\ \A i, j \in 1..Len(d.values) :
                  i < j => d.coordinates[d.values[i]] < d.coordinates[d.values[j]]
            /\ (last.op = "get_coordinate" /\ last.net = k) =>
                  IF last.id \in Range(d.values)
                  THEN /\ last.err = "ok"
                       /\ last.result = start + IndexOf(d.values, last.id) * step
                  ELSE last.err # "ok"

\* C21: a construct_links that returns (alone or within construct_network)
\* on a graph of n nodes has called validate_link n(n-1)/2 times, never on a
\* node and itself, never twice on a pair and never on a pair and its reverse.
C21_OneCallPerUnorderedPair ==
    LinksBuilt =>
        LET calls == last.result
            n == Len(Now.nodes)
        IN  /\ 2 * Len(calls) = n * (n - 1)
            /\ \A a \in 1..Len(calls) : calls[a][1] # calls[a][2]
            /\ \A a, b \in 1..Len(calls) :
                  a # b => /\ calls[a] # calls[b]
                           /\ calls[a] # <<calls[b][2], calls[b][1]>>

\* construct_links returned on a graph of three or more nodes.
C21_Witness ==
    /\ Returned("construct_links")
    /\ Len(Now.nodes) >= 3
    /\ Len(last.result) >= 3

\* C22: a remove_link that returns has removed the link of that id, which was
\* in the graph, and its link_mapping entry, and nothing else: the other
\* links in their order, the nodes, node_mapping and the other link_mapping
\* entries are those of before the call.
C22_RemoveLinkRemovesOnlyTheLink ==
    Returned("remove_link") =>
        /\ last.id \in LinkIds(Before.links)
        /\ last.id \notin LinkIds(Now.links)
        /\ Len(Now.links) = Len(Before.links) - 1
        /\ Now.links = SelectSeq(Before.links, LAMBDA l : l.link_id # last.id)
        /\ Now.link_mapping = Before.link_mapping \ {last.id}
        /\ Now.nodes = Before.nodes
        /\ Now.node_mapping = Before.node_mapping
        /\ net = [prev EXCEPT ![last.net].links = Now.links,
                              ![last.net].link_mapping = Now.link_mapping]

\* A link was removed from a graph that keeps its nodes and other links.
C22_Witness ==
    /\ Returned("remove_link")
    /\ Now.links # <<>>
    /\ \E x, y \in Range(Now.nodes) :
          /\ x.node_id # y.node_id
          /\ \A l \in Range(Now.links) : ~ (l.source = x.node_id /\ l.target = y.node_id)
          /\ \E l \in Range(Before.links) : l.source = x.node_id /\ l.target = y.node_id

\* The position of node_id in the enumeration order of the nodes of n.
PositionOf(n, node_id) == CHOOSE i \in 1..Len(n.nodes) : n.nodes[i].node_id = node_id

\* C23: after construct_network and any removals of nodes and links, no link
\* has its source as its target, no two links join the same two nodes, and
\* the source of every link comes before its target in the order of the
\* nodes.
C23_LinksAreForwardAndSimple ==
    \A k \in DOMAIN net :
        LET n == net[k]
        IN  /\ \A l \in Range(n.links) : l.source # l.target
            /\ \A a, b \in 1..Len(n.links) :
                  a # b => {n.links[a].source, n.links[a].target}
                             # {n.links[b].source, n.links[b].target}
            /\ \A l \in Range(n.links) :
                  PositionOf(n, l.source) < PositionOf(n, l.target)

\* A constructed graph that lost a node and a link still has links.
C23_Witness ==
    /\ Returned("remove_link")
    /\ prev[last.net].links # <<>>
    /\ Now.links # <<>>
    /\ Len(Now.nodes) < ValueCountProduct(Now.dimension_list)

\* merge_dimensions names a dimension id that both operands of the last call
\* have.
Qualifies(merge_dimensions) ==
    \E d \in Range(merge_dimensions) : d \in DimIds(Self) /\ d \in DimIds(Other)

\* C24: when merge_networks was called with a list that names a dimension of
\* both operands, a call on the same operands with any other such list ends
\* the same way and returns a network with the same dimensions, rules, nodes
\* and links.
C24_MergeIgnoresTheListBeyondThePrecondition ==
    (last.op = "merge_networks" /\ Qualifies(last.dims)) =>
        \A md \in MergeDimensionInputs :
            Qualifies(md) =>
                LET r == MergeNetworks(Self, Other, md)
                IN  /\ r.err = last.err
                    /\ last.err = "ok" =>
                          /\ r.net.dimension_list = Merged.dimension_list
                          /\ r.net.dimension_id_list = Merged.dimension_id_list
                          /\ r.net.link_rules = Merged.link_rules
                          /\ r.net.nodes = Merged.nodes
                          /\ r.net.links = Merged.links

\* Two networks were merged into one with links, and another list than the
\* one passed also names a dimension of both.
C24_Witness ==
    /\ Returned("merge_networks")
    /\ last.net # last.other
    /\ Merged.links # <<>>
    /\ \E md \in MergeDimensionInputs :
          /\ md # last.dims
          /\ Range(md) # Range(last.dims)
          /\ Qualifies(md)
====
